---- MODULE Spec2Model ----
(***************************************************************************)
(* Model of the survey bot of src/bot.py: the in-memory session map        *)
(* user_responses, the aiogram handlers start / help_command / handle_age  *)
(* / handle_sex / ask_question / handle_response, the persistence step     *)
(* save_response over the first worksheet, and the background task         *)
(* cleanup_expired_sessions.                                               *)
(*                                                                         *)
(* A coroutine runs without interruption from one await to the next, so    *)
(* each action is the code between two awaits.  An await that is the last  *)
(* statement of a handler has nothing after it and is folded into the step *)
(* that issues it.  Handlers of one identity are taken one at a time (the  *)
(* transport delivers the next event of an identity after the previous     *)
(* handler returned); handlers of different identities, the clock and the  *)
(* sweeper interleave freely at every await.                               *)
(***************************************************************************)
EXTENDS Integers, Sequences, FiniteSets, TLC

\* ------------------------------------------------------------- bounds
\* Participants (Telegram user ids).
Users == {41, 42}
\* The participant of the one-participant specification.
Solo == {42}
\* Largest clock value explored, in seconds.
MaxTime == 360
\* Largest clock value explored in the sweeper specification.
MaxSweepTime == 720
\* Seconds by which one clock step advances time.
TickStep == 180
\* Number of /start events explored with one participant.
MaxStarts == 2
\* Longest answers list explored with one participant (the code sets no limit).
MaxResponses == 11
\* Number of /start events explored with every participant.
MaxCrowdStarts == 3
\* Longest answers list explored with every participant.
MaxCrowdResponses == 1
\* Number of rows the sheet may hold in the persister specification.
MaxRows == 2

\* ---------------------------------------------------- program constants
SURVEY_EXPIRY_TIME == 180
SleepInterval == 10
NumQuestions == 10
MaxColumns == 14

\* ------------------------------------------------------------ inputs
\* Texts are sequences of characters; "^2" stands for the one character
\* SUPERSCRIPT TWO (U+00B2).
DecimalChars == {"0", "1", "2", "3", "4", "5", "6", "7", "8", "9"}
SuperscriptChars == {"^2"}
Texts == { <<"4", "2">>, <<"a", "b", "c">>, <<"^2">> }
SexValues == {"male", "female", "other"}
RatingValues == {"1", "2", "3", "4", "5"}
ApiFaults == {"none", "try", "try_and_fallback"}

\* ----------------------------------------------------------- messages
AgePrompt == "Please enter your age:"
SexPrompt == "Please select your sex:"
InvalidAge == "Invalid input. Please enter a valid age:"
TestIntro == "Thank you! Now let's start the test."
ExpiredNotice == "Your session has expired. Please restart with /start."
ThankYou == "Thank you for completing the test! Your responses have been saved."
HelpText == "Welcome to the Test Anxiety Bot!"
CallbackAck == "callback_ack"

\* ------------------------------------------------- string conversions
DigitChar(d) ==
    CASE d = 0 -> "0" [] d = 1 -> "1" [] d = 2 -> "2" [] d = 3 -> "3"
      [] d = 4 -> "4" [] d = 5 -> "5" [] d = 6 -> "6" [] d = 7 -> "7"
      [] d = 8 -> "8" [] d = 9 -> "9"

DigitValue(c) ==
    CASE c = "0" -> 0 [] c = "1" -> 1 [] c = "2" -> 2 [] c = "3" -> 3
      [] c = "4" -> 4 [] c = "5" -> 5 [] c = "6" -> 6 [] c = "7" -> 7
      [] c = "8" -> 8 [] c = "9" -> 9

\* str(n) of a non-negative int.
RECURSIVE Str(_)
Str(n) == IF n < 10 THEN DigitChar(n) ELSE Str(n \div 10) \o DigitChar(n % 10)

\* str(x) of the float x = n seconds.
StrFloat(n) == Str(n) \o ".0"

\* str.isdigit(): non-empty and every character a digit; the superscript
\* digits count as digits.
IsDigit(text) ==
    /\ Len(text) > 0
    /\ \A i \in 1..Len(text) : text[i] \in DecimalChars \cup SuperscriptChars

\* int(text) accepts decimal digits only; on anything else it raises
\* ValueError.
IntRaises(text) == \E i \in 1..Len(text) : text[i] \notin DecimalChars

RECURSIVE IntOf(_)
IntOf(text) ==
    IF Len(text) = 0 THEN 0
    ELSE 10 * IntOf(SubSeq(text, 1, Len(text) - 1)) + DigitValue(text[Len(text)])

\* The button pressed for the question of index k: 5, 4, 3, 2, 1, 5, 4, ...
RatingFor(k) == DigitChar(5 - (k % 5))

\* f"Q{index+1}: ..." of ask_question.
QuestionText(index) == "Q" \o Str(index + 1)

\* ---------------------------------------------------------- worksheet
\* The worksheet is a sequence of rows, a row a sequence of cell texts.
\* sheet.find(query): the first cell, in row-major order, whose text is
\* query; the result is its row number, 0 for None.
FindRow(sh, query) ==
    LET hits == { r \in 1..Len(sh) : \E c \in 1..Len(sh[r]) : sh[r][c] = query }
    IN  IF hits = {} THEN 0 ELSE CHOOSE r \in hits : \A q \in hits : r <= q

\* sheet.update(range_name="A{row}:N{row}", values=[data]): the cells of
\* that row are overwritten from column A on.
UpdateRow(sh, row, data) ==
    [sh EXCEPT ![row] =
        [c \in 1..(IF Len(data) > Len(@) THEN Len(data) ELSE Len(@)) |->
            IF c <= Len(data) THEN data[c] ELSE @[c]]]

\* sheet.append_row(data)
AppendRow(sh, data) == Append(sh, data)

\* The try block of save_response with no API error.
FindAndWrite(sh, data) ==
    LET row == FindRow(sh, data[1])
    IN  IF row # 0 THEN UpdateRow(sh, row, data) ELSE AppendRow(sh, data)

\* SheetUpsert with an except clause that only logs the APIError.
SheetUpsert_ErrorOnlyLogged(sh, data, fault) ==
    CASE fault = "none" ->
           [sheet |-> FindAndWrite(sh, data), caught |-> FALSE, raised |-> FALSE]
      [] OTHER ->
           [sheet |-> sh, caught |-> TRUE, raised |-> FALSE]

\* The Google Sheets branch of save_response.  fault says where gspread
\* raises APIError: nowhere, inside the try block (in find, update or
\* append_row, before the sheet changed), or there and again in the
\* append_row of the except handler.  The result is the sheet afterwards
\* and whether an exception leaves save_response.
SheetUpsert(sh, data, fault) ==
    CASE fault = "none" ->
           [sheet |-> FindAndWrite(sh, data), caught |-> FALSE, raised |-> FALSE]
      [] fault = "try" ->
           [sheet |-> AppendRow(sh, data), caught |-> TRUE, raised |-> FALSE]
      [] fault = "try_and_fallback" ->
           [sheet |-> sh, caught |-> TRUE, raised |-> TRUE]

\* -------------------------------------------------------------- state
VARIABLES
    proc,                \* "running", or "crashed" when module set-up raised
    USE_GOOGLE_SHEETS,   \* the module flag of that name
    user_responses,      \* the dict: identity -> session
    key_order,           \* the dict's keys in insertion (iteration) order
    pc,                  \* per identity, the await its handler is suspended at
    sheet,               \* rows of the first worksheet
    csv_file,            \* rows of responses.csv
    now,                 \* time.time(), in seconds
    sw_pc,               \* cleanup_expired_sessions: "sleep", "notify", "dead"
    sw_rest,             \* the part of expired_users the for loop has yet to visit
    wake_at,             \* when the sweeper's asyncio.sleep ends
    starts,              \* /start events so far
    last                 \* the step just taken: handler, identity, sends, exception

vars == << proc, USE_GOOGLE_SHEETS, user_responses, key_order, pc, sheet,
           csv_file, now, sw_pc, sw_rest, wake_at, starts, last >>

\* NewSession with the clock not read: start_time stays at 0.
NewSession_ClockNotRead(t) == [responses |-> <<>>, start_time |-> 0, age |-> <<>>, sex |-> <<>>]

\* A session is the dict start() builds.  The keys "age" and "sex" are
\* optional: <<>> stands for an absent key, <<v>> for a key holding v.
NewSession(t) == [responses |-> <<>>, start_time |-> t, age |-> <<>>, sex |-> <<>>]

\* user_id in user_responses
HasSession(u) == u \in DOMAIN user_responses

\* time.time() - user_responses[user_id]["start_time"] > SURVEY_EXPIRY_TIME
Expired(u) == now - user_responses[u].start_time > SURVEY_EXPIRY_TIME

\* The number of answers the session of u holds, 0 without a session.
AnswerCount(u) == IF HasSession(u) THEN Len(user_responses[u].responses) ELSE 0

\* The guard shared by ask_question, handle_response and save_response;
\* "or" evaluates its right operand only when the key is present.
MissingOrExpired(u) == IF HasSession(u) THEN Expired(u) ELSE TRUE

\* The record of one step: the handler, the identity, the texts handed
\* to the transport, the exception that left the handler, the record
\* written to the sheet or the file, whether the except clause of
\* save_response caught an APIError on the way, and the payload of the
\* event when the step is the arrival of one (the characters of a text,
\* or the one callback value).
Step(op, u, msgs, err, data, caught, arg) ==
    [op |-> op, user |-> u, msgs |-> msgs, error |-> err, data |-> data,
     caught |-> caught, arg |-> arg]

Saved(op, u, msgs, err, data, caught) == Step(op, u, msgs, err, data, caught, << >>)

Effect(op, u, msgs, err) == Step(op, u, msgs, err, << >>, FALSE, << >>)

Received(op, u, arg, msgs, err) == Step(op, u, msgs, err, << >>, FALSE, arg)

\* user_responses[user_id] = value
Store(u, value) ==
    /\ user_responses' = [x \in DOMAIN user_responses \cup {u} |->
                             IF x = u THEN value ELSE user_responses[x]]
    /\ key_order' = IF HasSession(u) THEN key_order ELSE Append(key_order, u)

\* Remove emptying the whole map, as user_responses.clear() would.
Remove_ClearsMap(u) ==
    /\ user_responses' = [x \in {} |-> user_responses[x]]
    /\ key_order' = << >>

\* user_responses.pop(user_id, None) and del user_responses[user_id]
Remove(u) ==
    /\ user_responses' = [x \in DOMAIN user_responses \ {u} |-> user_responses[x]]
    /\ key_order' = SelectSeq(key_order, LAMBDA x : x # u)

\* RecordOf with the age and sex columns exchanged.
RecordOf_SexBeforeAge(u, s, t) ==
    << Str(u),
       IF s.sex = << >> THEN "N/A" ELSE s.sex[1],
       IF s.age = << >> THEN "N/A" ELSE Str(s.age[1]) >>
    \o s.responses \o << StrFloat(t - s.start_time) >>

\* response_data of save_response before truncation, for session s of
\* identity u at time t.
RecordOf(u, s, t) ==
    << Str(u),
       IF s.age = << >> THEN "N/A" ELSE Str(s.age[1]),
       IF s.sex = << >> THEN "N/A" ELSE s.sex[1] >>
    \o s.responses \o << StrFloat(t - s.start_time) >>

ResponseData(u) == RecordOf(u, user_responses[u], now)

\* response_data[:14]
Truncate(data) == SubSeq(data, 1, IF Len(data) < MaxColumns THEN Len(data) ELSE MaxColumns)

Init ==
    /\ proc \in {"running", "crashed"}
    /\ USE_GOOGLE_SHEETS = (proc = "running")
    /\ user_responses = [x \in {} |-> NewSession(0)]
    /\ key_order = << >>
    /\ pc = [u \in Users |-> "idle"]
    /\ sheet = << >>
    /\ csv_file = << >>
    /\ now = 0
    /\ sw_pc = "sleep"
    /\ sw_rest = << >>
    /\ wake_at = 0
    /\ starts = 0
    /\ last = Effect("init", 0, << >>, "none")

\* ----------------------------------------------------------- handlers
\* What a handler step leaves alone besides the session map.
StoreUnchanged == UNCHANGED << user_responses, key_order >>
FilesUnchanged == UNCHANGED << sheet, csv_file >>
SweeperUnchanged == UNCHANGED << sw_pc, sw_rest, wake_at >>
EnvUnchanged == UNCHANGED << proc, USE_GOOGLE_SHEETS, now >>

\* start(message)
Start(u) ==
    /\ proc = "running" /\ pc[u] = "idle"
    /\ starts' = starts + 1
    /\ Store(u, NewSession(now))
    /\ last' = Effect("start", u, << AgePrompt >>, "none")
    /\ FilesUnchanged /\ SweeperUnchanged /\ EnvUnchanged
    /\ UNCHANGED pc

\* Help with the expiry check of the other handlers in front of it.
Help_DropsExpired(u) ==
    /\ proc = "running" /\ pc[u] = "idle"
    /\ last' = Effect("help", u, << HelpText >>, "none")
    /\ IF HasSession(u) THEN (IF Expired(u) THEN Remove(u) ELSE StoreUnchanged)
                        ELSE StoreUnchanged
    /\ FilesUnchanged /\ SweeperUnchanged /\ EnvUnchanged
    /\ UNCHANGED << pc, starts >>

\* help_command(message)
Help(u) ==
    /\ proc = "running" /\ pc[u] = "idle"
    /\ last' = Effect("help", u, << HelpText >>, "none")
    /\ StoreUnchanged /\ FilesUnchanged /\ SweeperUnchanged /\ EnvUnchanged
    /\ UNCHANGED << pc, starts >>

\* handle_age(message) for a message whose text is text
HandleAge(u, text) ==
    /\ proc = "running" /\ pc[u] = "idle"
    /\ IF HasSession(u) /\ user_responses[u].age = << >>
       THEN IF IsDigit(text)
            THEN IF IntRaises(text)
                 THEN /\ StoreUnchanged
                      /\ last' = Received("handle_age", u, text, << >>, "ValueError")
                 ELSE /\ Store(u, [user_responses[u] EXCEPT !.age = << IntOf(text) >>])
                      /\ last' = Received("handle_age", u, text, << SexPrompt >>, "none")
            ELSE /\ StoreUnchanged
                 /\ last' = Received("handle_age", u, text, << InvalidAge >>, "none")
       ELSE /\ StoreUnchanged
            /\ last' = Received("handle_age", u, text, << >>, "none")
    /\ FilesUnchanged /\ SweeperUnchanged /\ EnvUnchanged
    /\ UNCHANGED << pc, starts >>

\* SaveResponse with the thank-you message sent ahead of the write, so
\* that it is out even when the write raises.
SaveResponse_ThanksBeforeWrite(u, fault, op) ==
    IF MissingOrExpired(u)
    THEN /\ Remove(u)
         /\ last' = Effect(op, u, << ExpiredNotice >>, "none")
         /\ FilesUnchanged
    ELSE LET data == Truncate(ResponseData(u))
             res == SheetUpsert(sheet, data, fault)
         IN  /\ sheet' = res.sheet
             /\ csv_file' = csv_file
             /\ IF res.raised
                THEN /\ StoreUnchanged
                     /\ last' = Saved(op, u, << ThankYou >>, "APIError", << >>, TRUE)
                ELSE /\ Remove(u)
                     /\ last' = Saved(op, u, << ThankYou >>, "none", data, res.caught)

\* save_response(user_id); op names the handler that called it.
SaveResponse(u, fault, op) ==
    IF MissingOrExpired(u)
    THEN /\ Remove(u)
         /\ last' = Effect(op, u, << ExpiredNotice >>, "none")
         /\ FilesUnchanged
    ELSE LET data == Truncate(ResponseData(u))
             res == SheetUpsert(sheet, data, fault)
         IN  IF USE_GOOGLE_SHEETS
             THEN /\ sheet' = res.sheet
                  /\ csv_file' = csv_file
                  /\ IF res.raised
                     THEN /\ StoreUnchanged
                          /\ last' = Saved(op, u, << >>, "APIError", << >>, TRUE)
                     ELSE /\ Remove(u)
                          /\ last' = Saved(op, u, << ThankYou >>, "none", data, res.caught)
             ELSE /\ csv_file' = Append(csv_file, data)
                  /\ sheet' = sheet
                  /\ Remove(u)
                  /\ last' = Saved(op, u, << ThankYou >>, "none", data, FALSE)

\* ask_question(user_id, index)
AskQuestion(u, index, fault, op) ==
    IF MissingOrExpired(u)
    THEN /\ Remove(u)
         /\ last' = Effect(op, u, << ExpiredNotice >>, "none")
         /\ FilesUnchanged
    ELSE IF index < NumQuestions
         THEN /\ last' = Effect(op, u, << QuestionText(index) >>, "none")
              /\ StoreUnchanged /\ FilesUnchanged
         ELSE SaveResponse(u, fault, op)

\* handle_sex(call), up to its first await: the assignment of "sex" and
\* the call of call.answer().
HandleSex(u, s) ==
    /\ proc = "running" /\ pc[u] = "idle"
    /\ IF HasSession(u)
       THEN /\ Store(u, [user_responses[u] EXCEPT !.sex = << s >>])
            /\ pc' = [pc EXCEPT ![u] = "sex_ack"]
            /\ last' = Received("handle_sex", u, << s >>, << CallbackAck >>, "none")
       ELSE /\ StoreUnchanged
            /\ pc' = pc
            /\ last' = Received("handle_sex", u, << s >>, << >>, "KeyError")
    /\ FilesUnchanged /\ SweeperUnchanged /\ EnvUnchanged
    /\ UNCHANGED starts

\* handle_sex after call.answer() returned: call.message.answer(...)
SexAcked(u) ==
    /\ pc[u] = "sex_ack"
    /\ pc' = [pc EXCEPT ![u] = "sex_msg"]
    /\ last' = Effect("handle_sex", u, << TestIntro >>, "none")
    /\ StoreUnchanged /\ FilesUnchanged /\ SweeperUnchanged /\ EnvUnchanged
    /\ UNCHANGED starts

\* handle_sex after call.message.answer() returned: ask_question(user_id, 0)
SexIntroSent(u) ==
    /\ pc[u] = "sex_msg"
    /\ pc' = [pc EXCEPT ![u] = "idle"]
    /\ \E fault \in ApiFaults : AskQuestion(u, 0, fault, "handle_sex")
    /\ SweeperUnchanged /\ EnvUnchanged
    /\ UNCHANGED starts

\* handle_response(call), up to its first await.
HandleResponse(u, r) ==
    /\ proc = "running" /\ pc[u] = "idle"
    /\ IF MissingOrExpired(u)
       THEN /\ Remove(u)
            /\ pc' = pc
            /\ last' = Received("handle_response", u, << r >>, << ExpiredNotice >>, "none")
       ELSE /\ Store(u, [user_responses[u] EXCEPT !.responses = Append(@, r)])
            /\ pc' = [pc EXCEPT ![u] = "resp_ack"]
            /\ last' = Received("handle_response", u, << r >>, << CallbackAck >>, "none")
    /\ FilesUnchanged /\ SweeperUnchanged /\ EnvUnchanged
    /\ UNCHANGED starts

\* handle_response after call.answer() returned.
ResponseAcked(u) ==
    /\ pc[u] = "resp_ack"
    /\ pc' = [pc EXCEPT ![u] = "idle"]
    /\ IF ~HasSession(u)
       THEN /\ StoreUnchanged /\ FilesUnchanged
            /\ last' = Effect("handle_response", u, << >>, "KeyError")
       ELSE \E fault \in ApiFaults :
              IF Len(user_responses[u].responses) < NumQuestions
              THEN AskQuestion(u, Len(user_responses[u].responses), fault, "handle_response")
              ELSE SaveResponse(u, fault, "handle_response")
    /\ SweeperUnchanged /\ EnvUnchanged
    /\ UNCHANGED starts

\* The awaited send of a suspended handler raises: the exception leaves the
\* handler, whose remaining statements do not run.
AwaitRaises(u) ==
    /\ pc[u] # "idle"
    /\ pc' = [pc EXCEPT ![u] = "idle"]
    /\ last' = Effect(IF pc[u] = "resp_ack" THEN "handle_response" ELSE "handle_sex",
                      u, << >>, "TelegramError")
    /\ StoreUnchanged /\ FilesUnchanged /\ SweeperUnchanged /\ EnvUnchanged
    /\ UNCHANGED starts

\* ------------------------------------------------------------ sweeper
\* expired_users of cleanup_expired_sessions, in the dict's iteration order.
ExpiredUsers == SelectSeq(key_order, LAMBDA u : Expired(u))

\* The for loop from the head of list to its next await, or, the list
\* exhausted, to asyncio.sleep(10).  del of an absent key raises KeyError
\* outside the try block, which ends the task.
SweepFrom(list) ==
    IF list = << >>
    THEN /\ sw_pc' = "sleep" /\ sw_rest' = << >>
         /\ wake_at' = now + SleepInterval
         /\ StoreUnchanged
         /\ last' = Effect("cleanup", 0, << >>, "none")
    ELSE IF HasSession(Head(list))
         THEN /\ Remove(Head(list))
              /\ sw_pc' = "notify" /\ sw_rest' = Tail(list)
              /\ wake_at' = wake_at
              /\ last' = Effect("cleanup", Head(list), << ExpiredNotice >>, "none")
         ELSE /\ sw_pc' = "dead" /\ sw_rest' = << >>
              /\ wake_at' = wake_at
              /\ StoreUnchanged
              /\ last' = Effect("cleanup", Head(list), << >>, "KeyError")

\* The sleep is over: one pass of the while loop begins.
SweepWake ==
    /\ proc = "running" /\ sw_pc = "sleep" /\ now >= wake_at
    /\ SweepFrom(ExpiredUsers)
    /\ FilesUnchanged /\ EnvUnchanged
    /\ UNCHANGED << pc, starts >>

\* bot.send_message of the for loop returned, or raised and was swallowed.
SweepNotified ==
    /\ sw_pc = "notify"
    /\ SweepFrom(sw_rest)
    /\ FilesUnchanged /\ EnvUnchanged
    /\ UNCHANGED << pc, starts >>

\* Time passes.  A sleep that is over ends before more time passes: the
\* event loop is idle whenever every coroutine is suspended.
Tick(limit) ==
    /\ proc = "running"
    /\ now + TickStep <= limit
    /\ sw_pc = "sleep" => now < wake_at
    /\ now' = now + TickStep
    /\ last' = Effect("tick", 0, << >>, "none")
    /\ StoreUnchanged /\ FilesUnchanged /\ SweeperUnchanged
    /\ UNCHANGED << proc, USE_GOOGLE_SHEETS, pc, starts >>

\* The events of participant u, the answers list explored up to depth
\* entries and the /start events up to limit.  The button pressed is the
\* one RatingFor gives for the question the session is at.
Event(u, depth, limit) ==
    \/ starts < limit /\ Start(u)
    \/ Help(u)
    \/ \E text \in Texts : HandleAge(u, text)
    \/ \E s \in SexValues : HandleSex(u, s)
    \/ SexAcked(u)
    \/ SexIntroSent(u)
    \/ /\ IF MissingOrExpired(u) THEN TRUE ELSE AnswerCount(u) < depth
       /\ HandleResponse(u, RatingFor(AnswerCount(u)))
    \/ ResponseAcked(u)
    \/ AwaitRaises(u)

Background == SweepWake \/ SweepNotified \/ Tick(MaxTime)

\* One participant, whole surveys.
Next == (\E u \in Solo : Event(u, MaxResponses, MaxStarts)) \/ Background

Spec == Init /\ [][Next]_vars

\* Every participant, the first questions of the survey.
CrowdNext == (\E u \in Users : Event(u, MaxCrowdResponses, MaxCrowdStarts)) \/ Background

CrowdSpec == Init /\ [][CrowdNext]_vars

\* Every participant, /start and rating events only, over a longer time,
\* under the scheduling asyncio gives: a coroutine whose await is over is
\* resumed, and time goes on.
SweeperNext ==
    \/ \E u \in Users : starts < MaxCrowdStarts /\ Start(u)
    \/ \E u \in Users :
          /\ IF MissingOrExpired(u) THEN TRUE ELSE AnswerCount(u) < MaxCrowdResponses
          /\ HandleResponse(u, RatingFor(AnswerCount(u)))
    \/ \E u \in Users : ResponseAcked(u)
    \/ SweepWake
    \/ SweepNotified
    \/ Tick(MaxSweepTime)

SweeperSpec ==
    /\ Init /\ [][SweeperNext]_vars
    /\ WF_vars(SweepWake) /\ WF_vars(SweepNotified) /\ WF_vars(Tick(MaxSweepTime))

\* One participant going through whole surveys while the other starts a
\* survey and sends its age.
PairNext ==
    \/ \E u \in Solo : Event(u, NumQuestions, MaxStarts)
    \/ \E u \in Users \ Solo : starts < MaxStarts /\ Start(u)
    \/ \E u \in Users \ Solo : \E text \in Texts : HandleAge(u, text)
    \/ Background

PairSpec == Init /\ [][PairNext]_vars

\* ---------------------------------------------------------- persister
\* The persistence step of save_response on its own, the backend healthy:
\* the sheet under upserts of the records that finished surveys produce,
\* in any order.
\* A finished survey holds the NumQuestions answers RatingFor gives, with
\* or without an age and a sex, and took 0 or SURVEY_EXPIRY_TIME seconds.
FinishedSessions ==
    { [responses |-> [k \in 1..NumQuestions |-> RatingFor(k - 1)],
       start_time |-> 0, age |-> a, sex |-> x] :
        a \in { << >> } \cup { << IntOf(t) >> : t \in { t \in Texts : IsDigit(t) /\ ~IntRaises(t) } },
        x \in { << >>, << "female" >> } }

FinishedRecords(u) ==
    { Truncate(RecordOf(u, s, t)) : s \in FinishedSessions, t \in {0, SURVEY_EXPIRY_TIME} }

PersisterUnchanged ==
    UNCHANGED << proc, USE_GOOGLE_SHEETS, user_responses, key_order, pc,
                 csv_file, now, sw_pc, sw_rest, wake_at, starts >>

\* One upsert of the record data of identity u, with no API error.
Upsert(u, data) ==
    LET res == SheetUpsert(sheet, data, "none")
    IN  /\ proc = "running"
        /\ Len(res.sheet) <= MaxRows
        /\ sheet' = res.sheet
        /\ last' = Saved("upsert", u, << >>, "none", data, FALSE)
        /\ PersisterUnchanged

\* Two upserts for identity u, one after the other, with no API error.
UpsertTwice(u, first, second) ==
    LET once == SheetUpsert(sheet, first, "none").sheet
        twice == SheetUpsert(once, second, "none").sheet
    IN  /\ proc = "running"
        /\ Len(twice) <= MaxRows
        /\ sheet' = twice
        /\ last' = Saved("upsert_twice", u, << >>, "none", second, FALSE)
        /\ PersisterUnchanged

UpsertNext ==
    \/ \E u \in Users : \E data \in FinishedRecords(u) : Upsert(u, data)
    \/ \E u \in Users : \E first \in FinishedRecords(u), second \in FinishedRecords(u) :
          UpsertTwice(u, first, second)

UpsertSpec == Init /\ [][UpsertNext]_vars

TypeOK ==
    /\ proc \in {"running", "crashed"}
    /\ DOMAIN user_responses \subseteq Users
    /\ now \in 0..MaxSweepTime

\* ------------------------------------------------------------- claims
\* The step just taken is the arrival of a text, sex-choice or rating event
\* of u: its handler ran from its first statement to its first await.
Arrival(u, op) == pc[u] = "idle" /\ last'.op = op /\ last'.user = u

\* The step just taken resumed the suspended handler of u.
Resumed(u) ==
    /\ pc[u] # "idle"
    /\ last'.user = u /\ last'.op \in {"handle_sex", "handle_response"}
    /\ last'.error # "TelegramError"

\* A rating event that passed the check of handle_response.
AcceptedRating(u) ==
    Arrival(u, "handle_response") /\ last'.msgs = << CallbackAck >>

\* C1: the answers list of every session holds at most NumQuestions
\* entries, and every accepted rating event appends exactly one entry to
\* it and leaves the earlier entries as they were.
C1_AnswersBoundedAppendOnly ==
    [][\A u \in Users :
          /\ HasSession(u)' => Len(user_responses'[u].responses) <= NumQuestions
          /\ AcceptedRating(u) =>
                /\ HasSession(u) /\ HasSession(u)'
                /\ Len(user_responses'[u].responses) = Len(user_responses[u].responses) + 1
                /\ SubSeq(user_responses'[u].responses, 1, Len(user_responses[u].responses))
                      = user_responses[u].responses]_vars

\* C2: a text, sex-choice or rating event that arrives for a session whose
\* elapsed time exceeds SURVEY_EXPIRY_TIME deletes the session and sends
\* the expiry notice, and has no other effect.
C2_ExpiredSessionOnlyDeleted ==
    [][\A u \in Users :
          (/\ \E op \in {"handle_age", "handle_sex", "handle_response"} : Arrival(u, op)
           /\ IF HasSession(u) THEN Expired(u) ELSE FALSE)
          => /\ ~HasSession(u)'
             /\ last'.msgs = << ExpiredNotice >>
             /\ last'.error = "none"
             /\ pc'[u] = "idle"]_vars

\* new is old with the one row d appended, or with one row overwritten by d.
OneRowWritten(old, new, d) ==
    \/ /\ Len(new) = Len(old) + 1
       /\ new[Len(new)] = d
       /\ SubSeq(new, 1, Len(old)) = old
    \/ /\ Len(new) = Len(old)
       /\ \E r \in 1..Len(new) :
             new[r] = d /\ \A q \in 1..Len(new) : q # r => new[q] = old[q]

\* The text is the decimal writing of a non-negative integer.
Numeric(text) == Len(text) > 0 /\ \A i \in 1..Len(text) : text[i] \in DecimalChars

\* The session of u is present and within the expiry window.
Live(u) == IF HasSession(u) THEN now - user_responses[u].start_time <= SURVEY_EXPIRY_TIME ELSE FALSE

\* C3: Start, a numeric age, a sex and NumQuestions ratings, each handled
\* within the expiry window and with no exception, send in turn the age
\* prompt, the sex choices and the questions 1..NumQuestions, then write
\* the one record [U, age, sex, r_0..r_{N-1}, duration], send the
\* thank-you message and leave no session for U.
C3_SurveyRunsToRecord ==
    [][\A u \in Users :
          /\ (last'.op = "start" /\ last'.user = u) =>
                last'.msgs = << AgePrompt >>
          /\ (/\ Arrival(u, "handle_age") /\ Live(u) /\ Numeric(last'.arg)
              /\ user_responses[u].age = << >>) =>
                /\ HasSession(u)'
                /\ user_responses'[u].age = << IntOf(last'.arg) >>
                /\ last'.msgs = << SexPrompt >>
          /\ (Arrival(u, "handle_sex") /\ Live(u)) =>
                /\ HasSession(u)'
                /\ user_responses'[u].sex = last'.arg
          /\ (Resumed(u) /\ pc[u] = "sex_msg" /\ Live(u)) =>
                last'.msgs = << "Q1" >>
          /\ (AcceptedRating(u)) =>
                user_responses'[u].responses
                   = Append(user_responses[u].responses, last'.arg[1])
          /\ (/\ Resumed(u) /\ pc[u] = "resp_ack" /\ Live(u)
              /\ Len(user_responses[u].responses) < NumQuestions) =>
                last'.msgs = << "Q" \o Str(Len(user_responses[u].responses) + 1) >>
          /\ (/\ Resumed(u) /\ pc[u] = "resp_ack" /\ Live(u)
              /\ Len(user_responses[u].responses) = NumQuestions
              /\ user_responses[u].age # << >> /\ user_responses[u].sex # << >>
              /\ last'.error = "none") =>
                /\ last'.data = << Str(u), Str(user_responses[u].age[1]),
                                   user_responses[u].sex[1] >>
                                \o user_responses[u].responses
                                \o << StrFloat(now - user_responses[u].start_time) >>
                /\ OneRowWritten(sheet, sheet', last'.data)
                /\ last'.msgs = << ThankYou >>
                /\ ~HasSession(u)']_vars

\* A survey of identity 42, age 42, sex female, the ratings 5, 4, 3, 2, 1
\* twice over, finished in the second it started in.
C3_Witness ==
    /\ last.op = "handle_response" /\ last.msgs = << ThankYou >>
    /\ last.data = << "42", "42", "female", "5", "4", "3", "2", "1",
                      "5", "4", "3", "2", "1", "0.0" >>
    /\ sheet = << last.data >>
    /\ ~HasSession(42)

\* C4: a handler that resumes after an await and finds its session gone
\* (the sweeper evicted it meanwhile) goes on without an exception and
\* ends with the expiry notice.
C4_EvictionHandledAsExpiry ==
    [][\A u \in Users :
          (Resumed(u) /\ ~HasSession(u)) =>
             /\ last'.error = "none"
             /\ pc'[u] = "idle" => last'.msgs = << ExpiredNotice >>]_vars

\* C5: a text, sex-choice or rating event of an identity without a session
\* sends the expiry notice, raises nothing and creates no session.
C5_NoSessionMeansExpiryNotice ==
    [][\A u \in Users :
          (/\ \E op \in {"handle_age", "handle_sex", "handle_response"} : Arrival(u, op)
           /\ ~HasSession(u))
          => /\ last'.msgs = << ExpiredNotice >>
             /\ last'.error = "none"
             /\ ~HasSession(u)'
             /\ pc'[u] = "idle"]_vars

\* The rows of the sheet whose first column is the text of identity u.
RowsOf(sh, u) == { r \in 1..Len(sh) : sh[r][1] = Str(u) }

\* C6: after two successive upserts for one identity with no API error the
\* sheet holds exactly one row for that identity, the record of the second.
C6_TwoUpsertsLeaveOneRow ==
    last.op = "upsert_twice" =>
        /\ Cardinality(RowsOf(sheet, last.user)) = 1
        /\ \A r \in RowsOf(sheet, last.user) : sheet[r] = last.data

C8_MalformedAgeReprompted ==
    [][\A u \in Users :
          (/\ Arrival(u, "handle_age") /\ HasSession(u) /\ ~Numeric(last'.arg)
           /\ IF HasSession(u) THEN user_responses[u].age = << >> ELSE FALSE)
          => /\ last'.msgs = << InvalidAge >>
             /\ last'.error = "none"
             /\ user_responses' = user_responses]_vars

\* The session of u is in the store and past the expiry window.
Overdue(u) == IF HasSession(u) THEN Expired(u) ELSE FALSE

\* The sweeper's next pass lies after the last clock value explored.
BeyondHorizon == sw_pc = "sleep" /\ wake_at > MaxSweepTime

\* C9: with the sweeper scheduled fairly and time going on, every session
\* that is past the expiry window is eventually out of the store (unless
\* the pass that is to delete it lies beyond the time explored), and the
\* sweeper's deletion of a session comes with one expiry notice for it.
C9_OverdueSessionsSwept ==
    /\ \A u \in Users : Overdue(u) ~> (~Overdue(u) \/ BeyondHorizon)
    /\ [][\A u \in Users :
             (last'.op = "cleanup" /\ HasSession(u) /\ ~HasSession(u)') =>
                 (last'.user = u /\ last'.msgs = << ExpiredNotice >>)]_vars

\* C10: a Start event of u leaves u with the session start() builds at the
\* present time (no answers, no age, no sex) and sends the age prompt,
\* whatever u held before.
C10_StartGivesFreshSession ==
    [][\A u \in Users :
          (last'.op = "start" /\ last'.user = u) =>
             /\ HasSession(u)'
             /\ user_responses'[u] =
                   [responses |-> << >>, start_time |-> now, age |-> << >>, sex |-> << >>]
             /\ last'.msgs = << AgePrompt >>
             /\ \A v \in Users \ {u} : HasSession(v)' = HasSession(v)]_vars

\* A second Start of identity 42, six minutes after its first, with no
\* survey finished in between.
C10_Witness ==
    /\ last.op = "start" /\ last.user = 42 /\ starts = 2 /\ now = 360
    /\ sheet = << >>
    /\ HasSession(42)
    /\ user_responses[42] = [responses |-> << >>, start_time |-> 360, age |-> << >>, sex |-> << >>]

\* C11: once the set-up of the worksheet failed (the module flag is off)
\* the process is running and handles events, the worksheet is never
\* written, and every record a finished survey leaves is the last row of
\* responses.csv.
C11_StartupFailureFallsBackToFile ==
    ~USE_GOOGLE_SHEETS =>
        /\ proc = "running"
        /\ sheet = << >>
        /\ last.data # << >> =>
              (csv_file # << >> /\ csv_file[Len(csv_file)] = last.data)

\* C12: a Help event sends the help text and nothing else, and leaves the
\* session map, the suspended handlers and the persisted rows as they
\* were, whatever session the sender holds.
C12_HelpLeavesStoreAlone ==
    [][last'.op = "help" =>
          /\ last'.msgs = << HelpText >> /\ last'.error = "none"
          /\ user_responses' = user_responses
          /\ key_order' = key_order
          /\ pc' = pc
          /\ sheet' = sheet /\ csv_file' = csv_file]_vars

\* Help sent by identity 42 whose session holds an age and is past the
\* expiry window, while identity 41 holds a session with a sex.
C12_Witness ==
    /\ last.op = "help" /\ last.user = 42
    /\ HasSession(42) /\ HasSession(41)
    /\ user_responses[41].sex # << >>
    /\ user_responses[42].age = << 42 >>
    /\ now - user_responses[42].start_time > SURVEY_EXPIRY_TIME

\* C13: in every session of the map a sex is held only together with an
\* age, and answers are held only together with an age and a sex.
C13_StageOrderedByData ==
    \A u \in DOMAIN user_responses :
        /\ user_responses[u].sex # << >> => user_responses[u].age # << >>
        /\ user_responses[u].responses # << >> =>
              (user_responses[u].age # << >> /\ user_responses[u].sex # << >>)

\* C14: a sex-choice event that arrives for a session already holding a
\* sex leaves that value as it is and ends there: the handler does not go
\* on to send the first question again.
C14_SexSetOnce ==
    [][\A u \in Users :
          (/\ Arrival(u, "handle_sex") /\ HasSession(u)
           /\ user_responses[u].sex # << >>)
          => /\ HasSession(u)'
             /\ user_responses'[u].sex = user_responses[u].sex
             /\ pc'[u] = "idle"]_vars

\* C15: a session the sweeper takes out of the map, and whose owner it
\* then notifies, is past the expiry window at the moment it is deleted.
C15_SweeperDeletesOnlyExpired ==
    [][\A u \in Users :
          (last'.op = "cleanup" /\ HasSession(u) /\ ~HasSession(u)') =>
              now - user_responses[u].start_time > SURVEY_EXPIRY_TIME]_vars

\* C16: the cleanup task never ends: in every state it is asleep between
\* two passes or suspended in the send of a notice.
C16_SweeperStaysAlive ==
    proc = "running" => sw_pc \in {"sleep", "notify"}

\* The text is among the messages of the step just taken.
Sent(text) == \E i \in 1..Len(last'.msgs) : last'.msgs[i] = text

\* C17: a step that sends the thank-you message to u has written the
\* record of u's session, as it stood, to the sheet or to responses.csv
\* and has taken the session out of the map; a step that ends in an
\* exception or in the expiry notice sends no thank-you and writes nothing.
C17_ThanksOnlyAfterWrite ==
    [][\A u \in Users :
          /\ (last'.user = u /\ Sent(ThankYou)) =>
                /\ HasSession(u) /\ ~HasSession(u)'
                /\ Len(user_responses[u].responses) >= NumQuestions
                /\ last'.data = Truncate(RecordOf(u, user_responses[u], now))
                /\ \/ OneRowWritten(sheet, sheet', last'.data) /\ csv_file' = csv_file
                   \/ csv_file' = Append(csv_file, last'.data) /\ sheet' = sheet
          /\ (last'.user = u /\ (last'.error # "none" \/ Sent(ExpiredNotice))) =>
                /\ ~Sent(ThankYou)
                /\ sheet' = sheet /\ csv_file' = csv_file]_vars

\* The thank-you for a survey finished without an age and without a sex:
\* its record, with N/A in both columns, is the one row of the sheet.
C17_Witness ==
    /\ last.op = "handle_response" /\ last.msgs = << ThankYou >>
    /\ Len(last.data) = MaxColumns
    /\ last.data[2] = "N/A" /\ last.data[3] = "N/A"
    /\ sheet = << last.data >>

\* C18: every record written to the sheet or to responses.csv has
\* MaxColumns fields: the identity, the age, the sex, the NumQuestions
\* answers of the session in the order given, and the duration last.
C18_RecordHasFourteenFields ==
    [][\A u \in Users :
          (last'.user = u /\ last'.data # << >>) =>
             /\ HasSession(u)
             /\ Len(last'.data) = MaxColumns
             /\ last'.data[1] = Str(u)
             /\ Len(user_responses[u].responses) = NumQuestions
             /\ SubSeq(last'.data, 4, 3 + NumQuestions) = user_responses[u].responses
             /\ last'.data[MaxColumns] = StrFloat(now - user_responses[u].start_time)]_vars

\* C19: one upsert for identity u leaves every row whose first column is
\* another identity as it was, and appends the record when no row's first
\* column is u.
C19_UpsertTouchesOwnRowOnly ==
    [][last'.op = "upsert" =>
          /\ \A r \in 1..Len(sheet) :
                sheet[r][1] # Str(last'.user) =>
                    (r <= Len(sheet') /\ sheet'[r] = sheet[r])
          /\ RowsOf(sheet, last'.user) = {} => sheet' = Append(sheet, last'.data)]_vars

\* C20: a step of a handler of identity a (start, handle_age, handle_sex,
\* handle_response with ask_question and save_response) leaves every other
\* identity with the session it had, or without one as before.
C20_HandlersTouchOwnSessionOnly ==
    [][\A a \in Users :
          (last'.user = a /\ last'.op \in {"start", "handle_age", "handle_sex", "handle_response"}) =>
             \A b \in Users \ {a} :
                /\ HasSession(b)' = HasSession(b)
                /\ HasSession(b) => user_responses'[b] = user_responses[b]]_vars

\* Identity 42 has finished its survey and its session is gone, while the
\* session identity 41 started holds the age it sent.
C20_Witness ==
    /\ last.op = "handle_response" /\ last.user = 42 /\ last.msgs = << ThankYou >>
    /\ ~HasSession(42)
    /\ HasSession(41)
    /\ user_responses[41].age = << 42 >>

====
